---- MODULE Spec2Model ----
(***************************************************************************)
(* A model of the core of ansible_mcp/server.py: the recap parser and the *)
(* idempotence verifier, the inventory extractor / snapshot / diff, and    *)
(* the vault password-file lifecycle.                                      *)
(*                                                                         *)
(* Text is modelled as a sequence of one-character strings, so that the    *)
(* string operations of the source (strip, startswith, split, int) are     *)
(* computed and not assumed.                                               *)
(***************************************************************************)
EXTENDS Integers, Sequences, FiniteSets, TLC

VARIABLES
    \* ---- inventory-parse (one call in progress at a time)
    ppc,            \* "idle", or "done" once inventory_parse has returned
    pcall,          \* the call's parameters and what the executor returned
    presult,        \* the dict inventory_parse returned
    \* ---- inventory-diff (one call in progress at a time)
    dpc,            \* position inside inventory_diff
    dcall,          \* the call's parameters
    left,           \* line 537
    right,          \* line 540
    dresult,        \* the dict inventory_diff returned
    \* ---- vault tools (one call per process; processes may interleave)
    environ,        \* os.environ: MCP_VAULT_PASSWORD and VAULT_PASSWORD_FILE
    fs,             \* the temporary directory: path -> content of the file there
    vpc,            \* per process: position inside the vault tool
    vcall,          \* per process: the call's parameters
    vplan,          \* per process: the resolved credentials and the command template
    vtmp,           \* per process: the temporary files it created, in order
    vargv,          \* per process: the argument vector handed to the executor
    vout,           \* per process: the result or exception on its way to the caller
    \* ---- ansible-test-idempotence (one call in progress at a time)
    ipc,            \* position inside ansible_test_idempotence
    iargs,          \* the call's parameters
    first,          \* what line 588 binds; its stdout is dropped once line 589 has read it
    first_recap,    \* line 589
    second,         \* what line 591 binds, with its stdout
    exec_log,       \* the executor invocations of the call, in order
    iresult,        \* the dict returned at line 594, None before
    \* ---- the recap parser on its own (one call in progress at a time)
    rpc,            \* "idle", or "done" once _parse_play_recap has returned
    rtext,          \* the text it was given
    rtotals         \* the table it returned

idemVars == <<ipc, iargs, first, first_recap, second, exec_log, iresult>>

invVars == <<ppc, pcall, presult>>

diffVars == <<dpc, dcall, left, right, dresult>>

vaultVars == <<environ, fs, vpc, vcall, vplan, vtmp, vargv, vout>>

recapVars == <<rpc, rtext, rtotals>>

vars == <<idemVars, invVars, diffVars, vaultVars, recapVars>>

(***************************************************************************)
(* Bounds                                                                  *)
(***************************************************************************)
MaxLines == 3        \* lines in one stdout text
MaxHosts == 2        \* elements of one group's "hosts" list
MaxTemp  == 2        \* names the temporary directory can hand out
MaxLeaks == 1        \* files whose removal the filesystem may refuse

None == "<None>"

(***************************************************************************)
(* Python str operations, on sequences of characters                       *)
(***************************************************************************)
IsSpace(c) == c \in {" ", "\t"}

RECURSIVE lstrip(_)
lstrip(s) ==
    IF s = <<>> THEN <<>>
    ELSE IF IsSpace(Head(s)) THEN lstrip(Tail(s)) ELSE s

RECURSIVE rstrip(_)
rstrip(s) ==
    IF s = <<>> THEN <<>>
    ELSE IF IsSpace(s[Len(s)]) THEN rstrip(SubSeq(s, 1, Len(s) - 1)) ELSE s

strip(s) == rstrip(lstrip(s))

startswith(s, p) == Len(s) >= Len(p) /\ SubSeq(s, 1, Len(p)) = p

contains(s, c) == \E i \in 1..Len(s) : s[i] = c

\* index of the first occurrence of c in s, 0 when there is none
RECURSIVE find_from(_, _, _)
find_from(s, c, i) ==
    IF i > Len(s) THEN 0
    ELSE IF s[i] = c THEN i ELSE find_from(s, c, i + 1)

\* s.split(c, 1): one part when c does not occur, two otherwise
split1(s, c) ==
    LET i == find_from(s, c, 1)
    IN  IF i = 0 THEN <<s>>
        ELSE <<SubSeq(s, 1, i - 1), SubSeq(s, i + 1, Len(s))>>

\* s.split(): the maximal runs of non-whitespace characters
RECURSIVE split_ws_acc(_, _, _)
split_ws_acc(s, cur, acc) ==
    IF s = <<>> THEN (IF cur = <<>> THEN acc ELSE Append(acc, cur))
    ELSE IF IsSpace(Head(s))
         THEN split_ws_acc(Tail(s), <<>>, IF cur = <<>> THEN acc ELSE Append(acc, cur))
         ELSE split_ws_acc(Tail(s), Append(cur, Head(s)), acc)

split_ws(s) == split_ws_acc(s, <<>>, <<>>)

\* text.splitlines(): split at "\n", no empty last line after a final "\n"
RECURSIVE splitlines_acc(_, _, _)
splitlines_acc(s, cur, acc) ==
    IF s = <<>> THEN (IF cur = <<>> THEN acc ELSE Append(acc, cur))
    ELSE IF Head(s) = "\n"
         THEN splitlines_acc(Tail(s), <<>>, Append(acc, cur))
         ELSE splitlines_acc(Tail(s), Append(cur, Head(s)), acc)

splitlines(s) == splitlines_acc(s, <<>>, <<>>)

DigitVal(c) ==
    CASE c = "0" -> 0 [] c = "1" -> 1 [] c = "2" -> 2 [] c = "3" -> 3
      [] c = "4" -> 4 [] c = "5" -> 5 [] c = "6" -> 6 [] c = "7" -> 7
      [] c = "8" -> 8 [] c = "9" -> 9

IsDigit(c) == c \in {"0", "1", "2", "3", "4", "5", "6", "7", "8", "9"}

\* the value of a run of digits; the underscores int() allows are skipped
RECURSIVE digits_val(_, _)
digits_val(s, acc) ==
    IF s = <<>> THEN acc
    ELSE IF Head(s) = "_" THEN digits_val(Tail(s), acc)
    ELSE digits_val(Tail(s), 10 * acc + DigitVal(Head(s)))

\* int(v) for text without surrounding whitespace: an optional sign, then
\* decimal digits with single underscores between them; anything else is a
\* ValueError (ok = FALSE)
int_parse(v) ==
    LET signed == v # <<>> /\ Head(v) \in {"-", "+"}
        ds     == IF signed THEN Tail(v) ELSE v
        good   == /\ ds # <<>>
                  /\ IsDigit(ds[1]) /\ IsDigit(ds[Len(ds)])
                  /\ \A i \in 1..Len(ds) : IsDigit(ds[i]) \/ ds[i] = "_"
                  /\ \A i \in 1..(Len(ds) - 1) : ~(ds[i] = "_" /\ ds[i + 1] = "_")
    IN  IF ~good THEN [ok |-> FALSE, val |-> 0]
        ELSE [ok |-> TRUE,
              val |-> IF signed /\ Head(v) = "-" THEN 0 - digits_val(ds, 0)
                      ELSE digits_val(ds, 0)]

(***************************************************************************)
(* _parse_play_recap, server.py 497-521                                    *)
(***************************************************************************)
MARKER == <<"P", "L", "A", "Y", " ", "R", "E", "C", "A", "P">>

K_ok          == <<"o", "k">>
K_changed     == <<"c", "h", "a", "n", "g", "e", "d">>
K_unreachable == <<"u", "n", "r", "e", "a", "c", "h", "a", "b", "l", "e">>
K_failed      == <<"f", "a", "i", "l", "e", "d">>
K_skipped     == <<"s", "k", "i", "p", "p", "e", "d">>
K_rescued     == <<"r", "e", "s", "c", "u", "e", "d">>
K_ignored     == <<"i", "g", "n", "o", "r", "e", "d">>

StatKeys == {K_ok, K_changed, K_unreachable, K_failed, K_skipped, K_rescued, K_ignored}

\* line 511
ZeroStats == [k \in StatKeys |-> 0]

apply_seg_any_key(stats, seg) ==
    IF ~contains(seg, "=") THEN stats
    ELSE LET kv == split1(seg, "=")
             n  == int_parse(kv[2])
         IN  IF n.ok
             THEN [x \in DOMAIN stats \cup {kv[1]} |-> IF x = kv[1] THEN n.val ELSE stats[x]]
             ELSE stats

\* lines 513-519, one segment
apply_seg(stats, seg) ==
    IF ~contains(seg, "=") THEN stats
    ELSE LET kv == split1(seg, "=")
             k  == kv[1]
             n  == int_parse(kv[2])
         IN  IF k \in DOMAIN stats /\ n.ok
             THEN [stats EXCEPT ![k] = n.val]
             ELSE stats

\* lines 512-519
RECURSIVE apply_segs(_, _)
apply_segs(stats, segs) ==
    IF segs = <<>> THEN stats
    ELSE apply_segs(apply_seg(stats, Head(segs)), Tail(segs))

\* totals[host] = stats
put(d, k, v) == [x \in DOMAIN d \cup {k} |-> IF x = k THEN v ELSE d[x]]

EmptyDict == [x \in {} |-> 0]

\* lines 500-520, the loop over the lines
RECURSIVE recap_loop(_, _, _)
recap_loop(lines, started, totals) ==
    IF lines = <<>> THEN totals
    ELSE LET line == Head(lines)
             rest == Tail(lines)
         IN  IF startswith(strip(line), MARKER)
             THEN recap_loop(rest, TRUE, totals)
             ELSE IF ~started THEN recap_loop(rest, started, totals)
             ELSE IF strip(line) = <<>> THEN recap_loop(rest, started, totals)
             ELSE LET parts == split1(line, ":")
                  IN  IF Len(parts) # 2 THEN recap_loop(rest, started, totals)
                      ELSE recap_loop(rest, started,
                               put(totals, strip(parts[1]),
                                   apply_segs(ZeroStats, split_ws(parts[2]))))

_parse_play_recap_from_first_line(stdout) == recap_loop(splitlines(stdout), TRUE, EmptyDict)

\* _parse_play_recap, lines 497-521
_parse_play_recap(stdout) == recap_loop(splitlines(stdout), FALSE, EmptyDict)

\* sum(v.get("changed", 0) for v in totals.values()), line 525
RECURSIVE sum_over(_, _)
sum_over(totals, hs) ==
    IF hs = {} THEN 0
    ELSE LET h == CHOOSE x \in hs : TRUE
         IN  (IF K_changed \in DOMAIN totals[h] THEN totals[h][K_changed] ELSE 0)
             + sum_over(totals, hs \ {h})

_sum_changed_one_without_recap(totals) ==
    IF DOMAIN totals = {} THEN 1 ELSE sum_over(totals, DOMAIN totals)

\* _sum_changed, lines 524-525
_sum_changed(totals) == sum_over(totals, DOMAIN totals)

(***************************************************************************)
(* Command construction                                                    *)
(***************************************************************************)
\* ",".join(xs), line 586
RECURSIVE join_comma(_)
join_comma(xs) ==
    IF Len(xs) = 1 THEN xs[1] ELSE xs[1] \o "," \o join_comma(Tail(xs))

\* shlex.join(cmd) for words that need no quoting
RECURSIVE shlex_join(_)
shlex_join(cmd) ==
    IF cmd = <<>> THEN ""
    ELSE IF Len(cmd) = 1 THEN cmd[1] ELSE cmd[1] \o " " \o shlex_join(Tail(cmd))

\* _compose_ansible_env, lines 267-274, for absolute normalised paths
_compose_ansible_env(ansible_cfg_path, project_root, extra_env) ==
    [env |-> (IF ansible_cfg_path # None /\ ansible_cfg_path # ""
              THEN {<<"ANSIBLE_CONFIG", ansible_cfg_path>>} ELSE {})
             \cup extra_env,
     cwd |-> IF project_root # None /\ project_root # "" THEN project_root ELSE None]

\* the argument vector of ansible_playbook, lines 868-884, for the parameters
\* ansible_test_idempotence passes (playbook_path, inventory)
playbook_cmd(playbook_path, inventory) ==
    <<"ansible-playbook", playbook_path>>
        \o (IF inventory # None /\ inventory # "" THEN <<"-i", inventory>> ELSE <<>>)

(***************************************************************************)
(* Inputs of the idempotence verifier                                      *)
(***************************************************************************)
SeqsUpTo(S, n) == UNION {[1..k -> S] : k \in 0..n}

RECURSIVE join_lines(_)
join_lines(ls) ==
    IF ls = <<>> THEN <<>> ELSE Head(ls) \o <<"\n">> \o join_lines(Tail(ls))

L_marker == <<" ">> \o MARKER \o <<" ", "*", "*">>
L_a0     == <<"a", " ", ":", " ">> \o K_changed \o <<"=", "0">>
L_a1     == <<"a", ":">> \o K_ok \o <<"=", "2", " ">> \o K_changed \o <<"=", "1">>
L_b1     == <<"b", " ", ":", " ">> \o K_changed \o <<"=", "1">>
L_bneg   == <<"b", " ", ":", " ">> \o K_changed \o <<"=", "-", "1">>

IdemLines == {L_marker, L_a0, L_a1, L_b1, L_bneg}

IdemTexts == {join_lines(ls) : ls \in SeqsUpTo(IdemLines, MaxLines)}

ExitCodes == {0, 1, 2}

IdemArgs ==
    { [playbook_path |-> "site.yml", project_root |-> None, inventory_paths |-> <<>>],
      [playbook_path |-> "site.yml", project_root |-> "/proj",
       inventory_paths |-> <<"hosts.ini", "extra.ini">>] }

(***************************************************************************)
(* ansible_test_idempotence, server.py 582-603                             *)
(***************************************************************************)
\* lines 585-586 and the executor call ansible_playbook makes (line 885)
idem_invocation(a) ==
    LET ec  == _compose_ansible_env(None, a.project_root, {})
        inv == IF a.inventory_paths # <<>> THEN join_comma(a.inventory_paths) ELSE None
    IN  [argv |-> playbook_cmd(a.playbook_path, inv), cwd |-> ec.cwd, env |-> ec.env]

\* the dict ansible_playbook returns (line 886); stderr is read by no caller
\* modelled here
playbook_result(rc, out, cmd) ==
    [ok |-> rc = 0, rc |-> rc, stdout |-> out, command |-> shlex_join(cmd)]

idem_ok_ignoring_first(f, s, changed_total) == s.ok /\ changed_total = 0

\* line 595
idem_ok(f, s, changed_total) == f.ok /\ s.ok /\ changed_total = 0

idem_result_without_first_recap(f, f_recap, s, s_recap) ==
    LET changed_total == _sum_changed(s_recap)
    IN  [ok |-> idem_ok(f, s, changed_total),
         first_rc |-> f.rc,
         second_rc |-> s.rc,
         first_recap |-> EmptyDict,
         second_recap |-> s_recap,
         changed_total_second |-> changed_total,
         first_command |-> f.command,
         second_command |-> s.command]

\* lines 593-603
idem_result(f, f_recap, s, s_recap) ==
    LET changed_total == _sum_changed(s_recap)
    IN  [ok |-> idem_ok(f, s, changed_total),
         first_rc |-> f.rc,
         second_rc |-> s.rc,
         first_recap |-> f_recap,
         second_recap |-> s_recap,
         changed_total_second |-> changed_total,
         first_command |-> f.command,
         second_command |-> s.command]

IdemInit ==
    /\ ipc = "idle"
    /\ iargs = None
    /\ first = None
    /\ first_recap = None
    /\ second = None
    /\ exec_log = <<>>
    /\ iresult = None

\* the tool is called
IdemCall ==
    /\ ipc = "idle"
    /\ \E a \in IdemArgs : iargs' = a
    /\ ipc' = "first"
    /\ first' = None /\ first_recap' = None /\ second' = None
    /\ exec_log' = <<>> /\ iresult' = None
    /\ UNCHANGED <<invVars, diffVars, vaultVars, recapVars>>

\* an entry of exec_log: the executor is started with an invocation, or it
\* returns from it
Started(inv)  == [ev |-> "start", inv |-> inv]
Finished(inv) == [ev |-> "return", inv |-> inv]

\* lines 585-588: the first run is started; _run_command blocks in
\* process.communicate() (line 34) until the subprocess has ended
IdemFirst ==
    /\ ipc = "first"
    /\ exec_log' = Append(exec_log, Started(idem_invocation(iargs)))
    /\ ipc' = "first_running"
    /\ UNCHANGED <<iargs, first, first_recap, second, iresult>>
    /\ UNCHANGED <<invVars, diffVars, vaultVars, recapVars>>

\* lines 588-589: the first run returns and its recap is parsed
IdemFirstReturns ==
    /\ ipc = "first_running"
    /\ \E rc \in ExitCodes, out \in IdemTexts :
         LET inv == idem_invocation(iargs)
         IN  /\ exec_log' = Append(exec_log, Finished(inv))
             /\ first' = [playbook_result(rc, out, inv.argv) EXCEPT !.stdout = None]
             /\ first_recap' = _parse_play_recap(out)
    /\ ipc' = "second"
    /\ UNCHANGED <<iargs, second, iresult>>
    /\ UNCHANGED <<invVars, diffVars, vaultVars, recapVars>>

\* line 591: the second run is started
IdemSecond ==
    /\ ipc = "second"
    /\ exec_log' = Append(exec_log, Started(idem_invocation(iargs)))
    /\ ipc' = "second_running"
    /\ UNCHANGED <<iargs, first, first_recap, second, iresult>>
    /\ UNCHANGED <<invVars, diffVars, vaultVars, recapVars>>

\* lines 591-603: the second run returns, its recap is parsed, the verdict built
IdemSecondReturns ==
    /\ ipc = "second_running"
    /\ \E rc \in ExitCodes, out \in IdemTexts :
         LET inv == idem_invocation(iargs)
             snd == playbook_result(rc, out, inv.argv)
         IN  /\ exec_log' = Append(exec_log, Finished(inv))
             /\ second' = snd
             /\ iresult' = idem_result(first, first_recap, snd,
                                        _parse_play_recap(snd.stdout))
    /\ ipc' = "done"
    /\ UNCHANGED <<iargs, first, first_recap>>
    /\ UNCHANGED <<invVars, diffVars, vaultVars, recapVars>>

\* the caller has the verdict; the call's locals are gone
IdemReturn ==
    /\ ipc = "done"
    /\ ipc' = "idle"
    /\ iargs' = None /\ first' = None /\ first_recap' = None
    /\ second' = None /\ exec_log' = <<>> /\ iresult' = None
    /\ UNCHANGED <<invVars, diffVars, vaultVars, recapVars>>

IdemNext ==
    \/ IdemCall
    \/ IdemFirst
    \/ IdemFirstReturns
    \/ IdemSecond
    \/ IdemSecondReturns
    \/ IdemReturn

(***************************************************************************)
(* The recap parser on its own: _parse_play_recap on texts of up to        *)
(* MaxLines lines                                                          *)
(***************************************************************************)
R_mid          == <<"x", " ", "P", "L", "A", "Y", " ", "R", "E", "C", "A", "P">>
R_marker_colon == <<"P", "L", "A", "Y", " ", "R", "E", "C", "A", "P", ":">>
R_a_odd        == <<"a", " ", ":", " ", "o", "k", "=", "x", " ", "z", "=", "7", " ", "o", "k">>
R_b_dup        == <<"b", ":", "o", "k", "=", "1", " ", "o", "k", "=", "+", "2", " ", "o", "k", "=", "z">>
R_blank        == <<" ", " ">>
R_nocolon      == <<"b", " ", "o", "k", "=", "1">>

RecapLines ==
    {L_marker, R_mid, R_marker_colon, L_a1, R_a_odd, R_b_dup, R_blank, R_nocolon}

RecapTexts == {join_lines(ls) : ls \in SeqsUpTo(RecapLines, MaxLines)}

RecapInit ==
    /\ rpc = "idle"
    /\ rtext = None
    /\ rtotals = None

\* _parse_play_recap is called on a text and returns its table
RecapParse ==
    /\ rpc = "idle"
    /\ \E text \in RecapTexts :
         /\ rtext' = text
         /\ rtotals' = _parse_play_recap(text)
    /\ rpc' = "done"
    /\ UNCHANGED <<idemVars, invVars, diffVars, vaultVars>>

\* the caller has the table
RecapReturn ==
    /\ rpc = "done"
    /\ rpc' = "idle"
    /\ rtext' = None
    /\ rtotals' = None
    /\ UNCHANGED <<idemVars, invVars, diffVars, vaultVars>>

RecapNext == RecapParse \/ RecapReturn

(***************************************************************************)
(* Inventory JSON, as json.loads returns it.  A document is a dict from    *)
(* top-level keys to values; every value is a record                       *)
(*   shape    "nondict"        the value is no dict                        *)
(*            "nohosts"        a dict without a truthy "hosts"             *)
(*            "hosts_nonlist"  a dict whose "hosts" is truthy and no list  *)
(*            "hosts_list"     a dict whose "hosts" is a non-empty list    *)
(*   hosts    the elements of that list, each [t, v]: t is the JSON type   *)
(*            ("str", "int", "null") and v the text str() gives            *)
(*   hostvars the value's "hostvars" dict, host -> set of variable names   *)
(*            (the variables' values are read nowhere in the source)       *)
(***************************************************************************)
StrElem(x) == [t |-> "str", v |-> x]
IntElem(x) == [t |-> "int", v |-> x]

NoVars == [h \in {} |-> {}]

JVal(shape, hosts, hostvars) == [shape |-> shape, hosts |-> hosts, hostvars |-> hostvars]

\* the lexicographic order of the strings of the model, as sorted() sees it
Lex == <<"1", "a", "b", "c", "db", "k1", "k2", "web">>

RECURSIVE count_in(_, _)
count_in(xs, x) ==
    IF xs = <<>> THEN 0
    ELSE (IF Head(xs) = x THEN 1 ELSE 0) + count_in(Tail(xs), x)

RECURSIVE repeat(_, _)
repeat(x, n) == IF n = 0 THEN <<>> ELSE <<x>> \o repeat(x, n - 1)

\* sorted(xs) for a list of strings: duplicates stay
RECURSIVE sorted_from(_, _)
sorted_from(xs, i) ==
    IF i > Len(Lex) THEN <<>>
    ELSE repeat(Lex[i], count_in(xs, Lex[i])) \o sorted_from(xs, i + 1)

sorted_list(xs) == sorted_from(xs, 1)

\* sorted(S) for a set of strings
RECURSIVE sorted_set_from(_, _)
sorted_set_from(S, i) ==
    IF i > Len(Lex) THEN <<>>
    ELSE (IF Lex[i] \in S THEN <<Lex[i]>> ELSE <<>>) \o sorted_set_from(S, i + 1)

sorted_set(S) == sorted_set_from(S, 1)

\* set(xs)
Range(xs) == {xs[i] : i \in 1..Len(xs)}

\* data.get("_meta") or {} ; meta.get("hostvars") or {}   (lines 211-212);
\* the "_meta" values of the model are dicts
meta_hostvars(data) ==
    IF "_meta" \in DOMAIN data THEN data["_meta"].hostvars ELSE NoVars

\* lines 218-220: the list the loop of line 221 runs over
group_hosts_of(group_def) ==
    IF group_def.shape = "hosts_list" THEN group_def.hosts ELSE <<>>

\* line 225: [str(h) for h in group_hosts]
str_all(group_hosts) == [i \in 1..Len(group_hosts) |-> group_hosts[i].v]

\* lines 221-223: the string elements
str_elems(group_hosts) ==
    {group_hosts[i].v : i \in {j \in 1..Len(group_hosts) : group_hosts[j].t = "str"}}

\* _extract_hosts_from_inventory_json, lines 207-226
_extract_hosts_from_inventory_json(data) ==
    LET names == {g \in DOMAIN data : g # "_meta"}
        kept  == {g \in names : group_hosts_of(data[g]) # <<>>}
    IN  [hosts  |-> DOMAIN meta_hostvars(data)
                    \cup UNION {str_elems(group_hosts_of(data[g])) : g \in names},
         groups |-> [g \in kept |-> str_all(group_hosts_of(data[g]))]]

(***************************************************************************)
(* inventory_parse, server.py 284-315                                      *)
(***************************************************************************)
\* include_hostvars: bool | None
IncludeOpts == {"True", "False", None}

truthy(flag) == flag = "True"

\* _inventory_cli, lines 277-281, for absolute normalised paths
_inventory_cli(inventory_paths) ==
    IF inventory_paths = <<>> THEN <<>> ELSE <<"-i", join_comma(inventory_paths)>>

\* json.loads(out), lines 303-305: the executor's stdout is either the text of
\* a JSON document (valid, with the document in data) or undecodable text
json_loads(out) == [ok |-> out.valid, data |-> out.data]

\* lines 295-299
parse_base(a, rc, err) ==
    LET ec  == _compose_ansible_env(a.ansible_cfg_path, a.project_root,
                                    {<<"INVENTORY_ENABLED", "auto">>})
        cmd == <<"ansible-inventory", "--list">> \o _inventory_cli(a.inventory_paths)
    IN  [ok |-> rc = 0, rc |-> rc, stderr |-> err,
         command |-> shlex_join(cmd), cwd |-> ec.cwd]

parse_snapshot_empty_hostvars(result, data, include_hostvars) ==
    LET ex == _extract_hosts_from_inventory_json(data)
        r  == result @@ ("hosts" :> sorted_set(ex.hosts))
                     @@ ("groups" :> [g \in DOMAIN ex.groups |-> sorted_list(ex.groups[g])])
    IN  r @@ ("hostvars" :> IF truthy(include_hostvars) THEN meta_hostvars(data) ELSE NoVars)

\* lines 308-315
parse_snapshot(result, data, include_hostvars) ==
    LET ex == _extract_hosts_from_inventory_json(data)
        r  == result @@ ("hosts" :> sorted_set(ex.hosts))
                     @@ ("groups" :> [g \in DOMAIN ex.groups |-> sorted_list(ex.groups[g])])
    IN  IF truthy(include_hostvars)
        THEN r @@ ("hostvars" :> meta_hostvars(data))
        ELSE r

inventory_parse_without_rc_test(a, include_hostvars, rc, out, err) ==
    LET result == parse_base(a, rc, err)
    IN  IF ~json_loads(out).ok THEN result @@ ("stdout" :> out)
        ELSE parse_snapshot(result, json_loads(out).data, include_hostvars)

\* inventory_parse with the executor's answer (rc, out, err), lines 295-315
inventory_parse(a, include_hostvars, rc, out, err) ==
    LET result == parse_base(a, rc, err)
    IN  IF rc # 0 THEN result @@ ("stdout" :> out)
        ELSE IF ~json_loads(out).ok THEN result @@ ("stdout" :> out)
        ELSE parse_snapshot(result, json_loads(out).data, include_hostvars)

(***************************************************************************)
(* Inputs of inventory_parse                                               *)
(***************************************************************************)
NonEmptySeqsUpTo(S, n) == UNION {[1..k -> S] : k \in 1..n}

InvElems == {StrElem("a"), StrElem("b"), StrElem("c"), IntElem("1")}

InvHostvars == UNION {[D -> {{}, {"k1"}}] : D \in SUBSET {"a", "b"}}

MetaVals ==
    {JVal("nohosts", <<>>, hv) : hv \in InvHostvars}
        \cup {JVal("hosts_list", <<StrElem("c")>>, [h \in {"a"} |-> {"k1"}])}

WebVals ==
    {JVal("nondict", <<>>, NoVars), JVal("nohosts", <<>>, NoVars),
     JVal("hosts_nonlist", <<>>, NoVars)}
        \cup {JVal("hosts_list", hs, NoVars) : hs \in NonEmptySeqsUpTo(InvElems, MaxHosts)}

DbVals == {JVal("hosts_list", <<StrElem("c")>>, NoVars),
           JVal("hosts_list", <<IntElem("1")>>, NoVars)}

\* the dicts with key k bound to one of vs, or without k
OptKey(k, vs) == {EmptyDict} \cup {(k :> v) : v \in vs}

InvDocs ==
    {m @@ w @@ d : m \in OptKey("_meta", MetaVals), w \in OptKey("web", WebVals),
                   d \in OptKey("db", DbVals)}

JsonText(d) == [valid |-> TRUE, raw |-> "<json>", data |-> d]
Garbage(r)  == [valid |-> FALSE, raw |-> r, data |-> EmptyDict]

InvStdouts == {JsonText(d) : d \in InvDocs} \cup {Garbage(""), Garbage("not json")}

ErrTexts == {"", "ERROR! boom"}

ParseArgs ==
    { [project_root |-> None, ansible_cfg_path |-> None, inventory_paths |-> <<>>],
      [project_root |-> "/proj", ansible_cfg_path |-> "/proj/ansible.cfg",
       inventory_paths |-> <<"/proj/hosts.ini", "/proj/extra.ini">>] }

InvInit ==
    /\ ppc = "idle"
    /\ pcall = None
    /\ presult = None

\* inventory-parse is called, the executor answers, the tool returns
InventoryParse ==
    /\ ppc = "idle"
    /\ \E a \in ParseArgs, inc \in IncludeOpts, rc \in ExitCodes,
          out \in InvStdouts, err \in ErrTexts :
         /\ pcall' = [args |-> a, include_hostvars |-> inc, rc |-> rc,
                      out |-> out, err |-> err]
         /\ presult' = inventory_parse(a, inc, rc, out, err)
    /\ ppc' = "done"
    /\ UNCHANGED <<idemVars, diffVars, vaultVars, recapVars>>

\* the caller has the result
InventoryParseReturn ==
    /\ ppc = "done"
    /\ ppc' = "idle"
    /\ pcall' = None
    /\ presult' = None
    /\ UNCHANGED <<idemVars, diffVars, vaultVars, recapVars>>

InvNext == InventoryParse \/ InventoryParseReturn

(***************************************************************************)
(* inventory_diff, server.py 528-579                                       *)
(***************************************************************************)
\* set(side.get("hosts", [])), lines 543-544
side_hosts(side) == IF "hosts" \in DOMAIN side THEN Range(side.hosts) ELSE {}

\* {k: set(v) for k, v in (side.get("groups", {}) or {}).items()}, lines 547-548
side_groups(side) ==
    IF "groups" \in DOMAIN side
    THEN [g \in DOMAIN side.groups |-> Range(side.groups[g])]
    ELSE EmptyDict

\* lv.get(h, set()) with lv of line 568 (rv of line 569)
side_keys(side, h) ==
    IF h \notin side_hosts(side) THEN {}
    ELSE IF "hostvars" \in DOMAIN side /\ h \in DOMAIN side.hostvars
         THEN side.hostvars[h]
         ELSE {}

Delta(l, r) == [added |-> sorted_set(r \ l), removed |-> sorted_set(l \ r)]

DiffersBySize(d) == Len(d.added) # Len(d.removed)

\* add or rem, lines 557 and 576
Differs(d) == d.added # <<>> \/ d.removed # <<>>

AddedOnly(l, r) == sorted_set(r)

\* right - left, sorted (lines 545, 549)
Added(l, r) == sorted_set(r \ l)

\* lines 551-558
membership_changes(lg, rg) ==
    LET common  == DOMAIN lg \cap DOMAIN rg
        changed == {g \in common : Differs(Delta(lg[g], rg[g]))}
    IN  [g \in changed |-> Delta(lg[g], rg[g])]

hostvars_changes_common_hosts(l, r) ==
    LET hosts   == side_hosts(l) \cap side_hosts(r)
        changed == {h \in hosts : Differs(Delta(side_keys(l, h), side_keys(r, h)))}
    IN  [h \in changed |-> Delta(side_keys(l, h), side_keys(r, h))]

\* lines 568-577
hostvars_changes(l, r) ==
    LET hosts   == side_hosts(l) \cup side_hosts(r)
        changed == {h \in hosts : Differs(Delta(side_keys(l, h), side_keys(r, h)))}
    IN  [h \in changed |-> Delta(side_keys(l, h), side_keys(r, h))]

diff_result_left_relative(l, r, include_hostvars) ==
    LET lh  == side_hosts(l)
        rh  == side_hosts(r)
        lg  == side_groups(l)
        rg  == side_groups(r)
        res == [ok |-> TRUE,
                added_hosts |-> Added(rh, lh),
                removed_hosts |-> Added(rh, lh),
                added_groups |-> Added(DOMAIN lg, DOMAIN rg),
                removed_groups |-> Added(DOMAIN rg, DOMAIN lg),
                group_membership_changes |-> membership_changes(lg, rg)]
    IN  IF truthy(include_hostvars)
        THEN res @@ ("hostvars_key_changes" :> hostvars_changes(l, r))
        ELSE res

\* lines 543-579: the deltas of two results of inventory_parse
diff_result(l, r, include_hostvars) ==
    LET lh  == side_hosts(l)
        rh  == side_hosts(r)
        lg  == side_groups(l)
        rg  == side_groups(r)
        res == [ok |-> TRUE,
                added_hosts |-> Added(lh, rh),
                removed_hosts |-> Added(rh, lh),
                added_groups |-> Added(DOMAIN lg, DOMAIN rg),
                removed_groups |-> Added(DOMAIN rg, DOMAIN lg),
                group_membership_changes |-> membership_changes(lg, rg)]
    IN  IF truthy(include_hostvars)
        THEN res @@ ("hostvars_key_changes" :> hostvars_changes(l, r))
        ELSE res

\* lines 539 and 542
diff_error(side, result) == [ok |-> FALSE, side |-> side, error |-> result]

(***************************************************************************)
(* Inputs of inventory_diff                                                *)
(***************************************************************************)
DiffElems == {StrElem("a"), StrElem("b")}

DiffHostvars ==
    { [h \in {"a"} |-> {"k1"}],
      [h \in {"a", "c"} |-> IF h = "a" THEN {"k1", "k2"} ELSE {"k1"}],
      [h \in {"b"} |-> {"k2"}],
      [h \in {"c"} |-> {}] }

DiffDocs ==
    {m @@ w @@ d :
        m \in OptKey("_meta", {JVal("nohosts", <<>>, hv) : hv \in DiffHostvars}),
        w \in OptKey("web", {JVal("hosts_list", hs, NoVars) :
                                 hs \in NonEmptySeqsUpTo(DiffElems, MaxHosts)}),
        d \in OptKey("db", DbVals)}

DiffStdouts == {JsonText(d) : d \in DiffDocs} \cup {Garbage("not json")}

DiffExitCodes == {0, 1}

DiffCalls ==
    { [left |-> [project_root |-> "/old", ansible_cfg_path |-> None,
                 inventory_paths |-> <<>>],
       right |-> [project_root |-> "/new", ansible_cfg_path |-> None,
                  inventory_paths |-> <<>>],
       include_hostvars |-> inc] : inc \in IncludeOpts }

DiffInit ==
    /\ dpc = "idle"
    /\ dcall = None
    /\ left = None
    /\ right = None
    /\ dresult = None

\* the tool is called
DiffCall ==
    /\ dpc = "idle"
    /\ \E c \in DiffCalls : dcall' = c
    /\ dpc' = "left"
    /\ UNCHANGED <<left, right, dresult>>
    /\ UNCHANGED <<idemVars, invVars, vaultVars, recapVars>>

\* lines 537-539: the left snapshot
DiffLeft ==
    /\ dpc = "left"
    /\ \E rc \in DiffExitCodes, out \in DiffStdouts :
         LET l == inventory_parse(dcall.left, dcall.include_hostvars, rc, out, "")
         IN  /\ left' = l
             /\ IF ~l.ok
                THEN dresult' = diff_error("left", l) /\ dpc' = "done"
                ELSE dresult' = dresult /\ dpc' = "right"
    /\ UNCHANGED <<dcall, right>>
    /\ UNCHANGED <<idemVars, invVars, vaultVars, recapVars>>

\* lines 540-579: the right snapshot and the deltas
DiffRight ==
    /\ dpc = "right"
    /\ \E rc \in DiffExitCodes, out \in DiffStdouts :
         LET r == inventory_parse(dcall.right, dcall.include_hostvars, rc, out, "")
         IN  /\ right' = r
             /\ dresult' = IF ~r.ok THEN diff_error("right", r)
                           ELSE diff_result(left, r, dcall.include_hostvars)
    /\ dpc' = "done"
    /\ UNCHANGED <<dcall, left>>
    /\ UNCHANGED <<idemVars, invVars, vaultVars, recapVars>>

\* the caller has the result
DiffReturn ==
    /\ dpc = "done"
    /\ dpc' = "idle"
    /\ dcall' = None /\ left' = None /\ right' = None /\ dresult' = None
    /\ UNCHANGED <<idemVars, invVars, vaultVars, recapVars>>

DiffNext == DiffCall \/ DiffLeft \/ DiffRight \/ DiffReturn

(***************************************************************************)
(* Vault password handling, server.py 649-728                              *)
(***************************************************************************)
Procs == {1, 2}

\* Python truthiness of an optional string: None and "" are false
Present(x) == x # None /\ x # ""

PW_FLAG     == "--vault-password-file"
NEW_PW_FLAG == "--new-vault-password-file"
TEMPFILE     == "__TEMPFILE__"
TEMPFILE_NEW == "__TEMPFILE_NEW__"

resolve_value_before_file(password, password_file, env) ==
    IF Present(password) THEN [args |-> <<PW_FLAG, TEMPFILE>>, inline |-> password]
    ELSE IF Present(password_file)
         THEN [args |-> <<PW_FLAG, password_file>>, inline |-> None]
    ELSE IF Present(env.MCP_VAULT_PASSWORD)
         THEN [args |-> <<PW_FLAG, TEMPFILE>>, inline |-> env.MCP_VAULT_PASSWORD]
    ELSE IF Present(env.VAULT_PASSWORD_FILE)
         THEN [args |-> <<PW_FLAG, env.VAULT_PASSWORD_FILE>>, inline |-> None]
    ELSE [args |-> <<>>, inline |-> None]

\* _resolve_vault_pw_args, lines 664-675, with os.environ as env
_resolve_vault_pw_args(password, password_file, env) ==
    IF Present(password_file)
    THEN [args |-> <<PW_FLAG, password_file>>, inline |-> None]
    ELSE IF Present(password)
         THEN [args |-> <<PW_FLAG, TEMPFILE>>, inline |-> password]
    ELSE IF Present(env.MCP_VAULT_PASSWORD)
         THEN [args |-> <<PW_FLAG, TEMPFILE>>, inline |-> env.MCP_VAULT_PASSWORD]
    ELSE IF Present(env.VAULT_PASSWORD_FILE)
         THEN [args |-> <<PW_FLAG, env.VAULT_PASSWORD_FILE>>, inline |-> None]
    ELSE [args |-> <<>>, inline |-> None]

subst_nothing(cmd, token, value) == cmd

\* [a if a != token else value for a in cmd], lines 686, 720, 722, 726
subst(cmd, token, value) ==
    [i \in 1..Len(cmd) |-> IF cmd[i] = token THEN value ELSE cmd[i]]

\* x or "" for an optional string
or_empty(x) == IF Present(x) THEN x ELSE ""

VaultFiles == <<"secrets.yml">>

NoCred == [args |-> <<>>, inline |-> None]

\* _run_vault_cmd up to the branch of line 681, for vault-encrypt, vault-decrypt
\* and vault-view (lines 691-705): the credential, the command with its
\* placeholder, and the passwords to write to temporary files
single_plan(c, env) ==
    LET cred == _resolve_vault_pw_args(c.password, c.password_file, env)
    IN  [cred     |-> cred,
         new      |-> NoCred,
         template |-> <<"ansible-vault", c.op>> \o VaultFiles \o cred.args,
         needs    |-> IF cred.inline = None THEN <<>> ELSE <<cred.inline>>,
         tokens   |-> <<TEMPFILE>>]

\* vault_rekey, lines 710-726, up to the executor call
rekey_plan(c, env) ==
    LET old     == _resolve_vault_pw_args(c.password, c.password_file, env)
        new     == _resolve_vault_pw_args(c.new_password, c.new_password_file, env)
        has_new == Present(new.inline) \/ Present(c.new_password_file)
        subcmd  == <<"rekey">> \o VaultFiles
                       \o (IF has_new THEN <<NEW_PW_FLAG, TEMPFILE_NEW>> ELSE <<>>)
                       \o old.args
        cmd     == <<"ansible-vault">> \o subcmd
    IN  IF Present(old.inline) \/ Present(new.inline)
        THEN [cred     |-> old,
              new      |-> new,
              template |-> cmd,
              needs    |-> <<or_empty(old.inline), or_empty(new.inline)>>,
              tokens   |-> <<TEMPFILE, TEMPFILE_NEW>>]
        ELSE [cred     |-> old,
              new      |-> new,
              template |-> subst(cmd, TEMPFILE_NEW,
                                 IF new.args # <<>> THEN new.args[2] ELSE ""),
              needs    |-> <<>>,
              tokens   |-> <<>>]

vault_plan(c, env) == IF c.op = "rekey" THEN rekey_plan(c, env) ELSE single_plan(c, env)

\* the placeholders replaced by the paths of the temporary files
RECURSIVE fill(_, _, _)
fill(cmd, tokens, tmp) ==
    IF tokens = <<>> THEN cmd
    ELSE fill(subst(cmd, Head(tokens), Head(tmp).path), Tail(tokens), Tail(tmp))

\* lines 683, 688, 724, 728
vault_result(ans, cmd) ==
    [kind |-> "ret", ok |-> ans.rc = 0, rc |-> ans.rc, stdout |-> ans.out,
     stderr |-> ans.err, command |-> shlex_join(cmd)]

\* an exception on its way to the caller
Raised(what) ==
    [kind |-> "exc", ok |-> FALSE, rc |-> 0, stdout |-> "", stderr |-> "",
     command |-> what]

NoOutcome ==
    [kind |-> "none", ok |-> FALSE, rc |-> 0, stdout |-> "", stderr |-> "",
     command |-> ""]

LiveIdx(tmp) == {i \in 1..Len(tmp) : tmp[i].st = "live"}

pc_after_body_without_finally(outcome, tmp) ==
    IF outcome.kind = "exc" \/ LiveIdx(tmp) = {} THEN "done" ELSE "remove"

\* where control goes when the body of the with statement is left (lines
\* 657-661): into the finally clauses of the files still to be removed
pc_after_body(outcome, tmp) == IF LiveIdx(tmp) = {} THEN "done" ELSE "remove"

(***************************************************************************)
(* Inputs of the vault tools                                               *)
(***************************************************************************)
Max(S) == CHOOSE x \in S : \A y \in S : y <= x

TempNames == 1..MaxTemp

TempPath(n) ==
    CASE n = 1 -> "/tmp/vault_1.pwd" [] n = 2 -> "/tmp/vault_2.pwd"
      [] n = 3 -> "/tmp/vault_3.pwd" [] OTHER -> "/tmp/vault_n.pwd"

TempPaths == {TempPath(n) : n \in TempNames}

Environs ==
    [MCP_VAULT_PASSWORD : {None, "", "envpw"},
     VAULT_PASSWORD_FILE : {None, "", "/env.pw"}]

SingleCalls ==
    [op : {"encrypt", "decrypt", "view"},
     password : {None, "", "pw"}, password_file : {None, "", "/old.pw"},
     new_password : {None}, new_password_file : {None}]

RekeyCalls ==
    [op : {"rekey"},
     password : {None, "pw"}, password_file : {None, "/old.pw"},
     new_password : {None, "newpw"}, new_password_file : {None, "/new.pw"}]

VaultCalls == SingleCalls \cup RekeyCalls

VaultAnswers ==
    { [rc |-> 0, out |-> "done", err |-> ""],
      [rc |-> 1, out |-> "", err |-> "ERROR! Decryption failed"] }

NoCall == [op |-> "none", password |-> None, password_file |-> None,
           new_password |-> None, new_password_file |-> None]

NoPlan == [cred |-> NoCred, new |-> NoCred, template |-> <<>>, needs |-> <<>>,
           tokens |-> <<>>]

\* no call in progress, an empty temporary directory, an environment of E
VaultInitIn(E) ==
    /\ environ \in E
    /\ fs = EmptyDict
    /\ vpc = [p \in Procs |-> "idle"]
    /\ vcall = [p \in Procs |-> NoCall]
    /\ vplan = [p \in Procs |-> NoPlan]
    /\ vtmp = [p \in Procs |-> <<>>]
    /\ vargv = [p \in Procs |-> <<>>]
    /\ vout = [p \in Procs |-> NoOutcome]

VaultInit == VaultInitIn(Environs)

\* the vault tools at rest, for the specifications of the other tools
VaultAtRest ==
    VaultInitIn({[MCP_VAULT_PASSWORD |-> None, VAULT_PASSWORD_FILE |-> None]})

\* files of fs that no running call is still going to remove
Leaked == DOMAIN fs \ UNION {{vtmp[q][i].path : i \in LiveIdx(vtmp[q])} : q \in Procs}

\* a vault tool is called: lines 679-681 (712-718 for vault-rekey)
VaultCall(p, c) ==
    /\ vpc[p] = "idle"
    /\ LET plan == vault_plan(c, environ)
       IN  /\ vplan' = [vplan EXCEPT ![p] = plan]
           /\ vpc' = [vpc EXCEPT ![p] = IF plan.needs = <<>> THEN "exec" ELSE "create"]
    /\ vcall' = [vcall EXCEPT ![p] = c]
    /\ vtmp' = [vtmp EXCEPT ![p] = <<>>]
    /\ vargv' = [vargv EXCEPT ![p] = <<>>]
    /\ vout' = [vout EXCEPT ![p] = NoOutcome]
    /\ UNCHANGED <<environ, fs>>
    /\ UNCHANGED <<idemVars, invVars, diffVars, recapVars>>

any_names(files) == TempPaths

\* the names NamedTemporaryFile can choose (line 651): it creates the file
\* exclusively, so never under the name of a file that exists
unused_names(files) == TempPaths \ DOMAIN files

\* line 651: NamedTemporaryFile creates an empty file under a name not in use
VaultCreate(p) ==
    /\ vpc[p] = "create"
    /\ \E path \in unused_names(fs) :
         /\ fs' = (path :> "") @@ fs
         /\ vtmp' = [vtmp EXCEPT ![p] = Append(@, [path |-> path, st |-> "live"])]
    /\ vpc' = [vpc EXCEPT ![p] = "write"]
    /\ UNCHANGED <<environ, vcall, vplan, vargv, vout>>
    /\ UNCHANGED <<idemVars, invVars, diffVars, recapVars>>

\* line 651 raises: nothing was created, the exception leaves the with
\* statement through the finally clauses of the files entered before
VaultCreateFails(p) ==
    /\ vpc[p] = "create"
    /\ vout' = [vout EXCEPT ![p] = Raised("NamedTemporaryFile")]
    /\ vpc' = [vpc EXCEPT ![p] = pc_after_body(vout'[p], vtmp[p])]
    /\ UNCHANGED <<environ, fs, vcall, vplan, vtmp, vargv>>
    /\ UNCHANGED <<idemVars, invVars, diffVars, recapVars>>

\* lines 653-656: the password is written, the file closed, the path yielded
VaultWrite(p) ==
    /\ vpc[p] = "write"
    /\ LET k == Len(vtmp[p])
       IN  /\ fs' = [fs EXCEPT ![vtmp[p][k].path] = vplan[p].needs[k]]
           /\ vpc' = [vpc EXCEPT ![p] =
                         IF k < Len(vplan[p].needs) THEN "create" ELSE "exec"]
    /\ UNCHANGED <<environ, vcall, vplan, vtmp, vargv, vout>>
    /\ UNCHANGED <<idemVars, invVars, diffVars, recapVars>>

\* lines 653-655 raise inside the try: the finally clause runs
VaultWriteFails(p) ==
    /\ vpc[p] = "write"
    /\ vout' = [vout EXCEPT ![p] = Raised("write")]
    /\ vpc' = [vpc EXCEPT ![p] = pc_after_body(vout'[p], vtmp[p])]
    /\ UNCHANGED <<environ, fs, vcall, vplan, vtmp, vargv>>
    /\ UNCHANGED <<idemVars, invVars, diffVars, recapVars>>

\* lines 682, 686-687, 720-723, 726-727: the executor is handed the command
VaultExec(p) ==
    /\ vpc[p] = "exec"
    /\ vargv' = [vargv EXCEPT ![p] = fill(vplan[p].template, vplan[p].tokens, vtmp[p])]
    /\ vpc' = [vpc EXCEPT ![p] = "running"]
    /\ UNCHANGED <<environ, fs, vcall, vplan, vtmp, vout>>
    /\ UNCHANGED <<idemVars, invVars, diffVars, recapVars>>

\* _run_command returns (lines 34-35) and the result dict is built
VaultExecReturns(p) ==
    /\ vpc[p] = "running"
    /\ \E ans \in VaultAnswers :
         vout' = [vout EXCEPT ![p] = vault_result(ans, vargv[p])]
    /\ vpc' = [vpc EXCEPT ![p] = pc_after_body(vout'[p], vtmp[p])]
    /\ UNCHANGED <<environ, fs, vcall, vplan, vtmp, vargv>>
    /\ UNCHANGED <<idemVars, invVars, diffVars, recapVars>>

\* _run_command raises (Popen, line 26)
VaultExecRaises(p) ==
    /\ vpc[p] = "running"
    /\ vout' = [vout EXCEPT ![p] = Raised("Popen")]
    /\ vpc' = [vpc EXCEPT ![p] = pc_after_body(vout'[p], vtmp[p])]
    /\ UNCHANGED <<environ, fs, vcall, vplan, vtmp, vargv>>
    /\ UNCHANGED <<idemVars, invVars, diffVars, recapVars>>

\* lines 658-659: os.remove of the file entered last and not yet left
VaultRemove(p) ==
    /\ vpc[p] = "remove"
    /\ LET k    == Max(LiveIdx(vtmp[p]))
           path == vtmp[p][k].path
       IN  /\ fs' = [x \in DOMAIN fs \ {path} |-> fs[x]]
           /\ vtmp' = [vtmp EXCEPT ![p][k].st = "removed"]
           /\ vpc' = [vpc EXCEPT ![p] = pc_after_body(vout[p], vtmp'[p])]
    /\ UNCHANGED <<environ, vcall, vplan, vargv, vout>>
    /\ UNCHANGED <<idemVars, invVars, diffVars, recapVars>>

raise_remove_failure(outcome) == Raised("os.remove")

\* lines 660-661, "except Exception: pass": the exception of os.remove is
\* dropped, and what was on its way to the caller stays on its way
outcome_after_remove_failure(outcome) == outcome

\* lines 658-661: os.remove raises and the exception is dropped
VaultRemoveFails(p) ==
    /\ vpc[p] = "remove"
    /\ Cardinality(Leaked) < MaxLeaks
    /\ vout' = [vout EXCEPT ![p] = outcome_after_remove_failure(@)]
    /\ LET k == Max(LiveIdx(vtmp[p]))
       IN  /\ vtmp' = [vtmp EXCEPT ![p][k].st = "stuck"]
           /\ vpc' = [vpc EXCEPT ![p] = pc_after_body(vout'[p], vtmp'[p])]
    /\ UNCHANGED <<environ, fs, vcall, vplan, vargv>>
    /\ UNCHANGED <<idemVars, invVars, diffVars, recapVars>>

\* the caller has the result or the exception
VaultReturn(p) ==
    /\ vpc[p] = "done"
    /\ vpc' = [vpc EXCEPT ![p] = "idle"]
    /\ vcall' = [vcall EXCEPT ![p] = NoCall]
    /\ vplan' = [vplan EXCEPT ![p] = NoPlan]
    /\ vtmp' = [vtmp EXCEPT ![p] = <<>>]
    /\ vargv' = [vargv EXCEPT ![p] = <<>>]
    /\ vout' = [vout EXCEPT ![p] = NoOutcome]
    /\ UNCHANGED <<environ, fs>>
    /\ UNCHANGED <<idemVars, invVars, diffVars, recapVars>>

VaultNext ==
    \/ \E c \in VaultCalls : VaultCall(1, c)
    \/ VaultCreate(1)
    \/ VaultCreateFails(1)
    \/ VaultWrite(1)
    \/ VaultWriteFails(1)
    \/ VaultExec(1)
    \/ VaultExecReturns(1)
    \/ VaultExecRaises(1)
    \/ VaultRemove(1)
    \/ VaultRemoveFails(1)
    \/ VaultReturn(1)

\* the calls of the concurrent runs: in-memory passwords that differ from call
\* to call, a rekey with two of them, and a call with a password file
ConcCalls ==
    { [op |-> "encrypt", password |-> "pw", password_file |-> None,
       new_password |-> None, new_password_file |-> None],
      [op |-> "decrypt", password |-> "pw2", password_file |-> None,
       new_password |-> None, new_password_file |-> None],
      [op |-> "view", password |-> None, password_file |-> "/old.pw",
       new_password |-> None, new_password_file |-> None],
      [op |-> "rekey", password |-> "pw", password_file |-> None,
       new_password |-> "newpw", new_password_file |-> None] }

\* the vault tools called from several threads at once: every process takes
\* its steps in any order relative to the others
ConcNext ==
    \E p \in Procs :
        \/ \E c \in ConcCalls : VaultCall(p, c)
        \/ VaultCreate(p)
        \/ VaultCreateFails(p)
        \/ VaultWrite(p)
        \/ VaultWriteFails(p)
        \/ VaultExec(p)
        \/ VaultExecReturns(p)
        \/ VaultExecRaises(p)
        \/ VaultRemove(p)
        \/ VaultRemoveFails(p)
        \/ VaultReturn(p)

(***************************************************************************)
(* Idempotence verdict: claims                                             *)
(***************************************************************************)
\* the sum of the changed counters of a recap, host by host
ChangedTotal(recap) ==
    LET f[S \in SUBSET DOMAIN recap] ==
            IF S = {} THEN 0
            ELSE LET h == CHOOSE x \in S : TRUE
                 IN  recap[h][K_changed] + f[S \ {h}]
    IN  f[DOMAIN recap]

\* C1: the verdict ok is true exactly when both runs exited with code 0 and
\* the changed counters of the second run's recap sum to zero.
C1_OkIffBothExitZeroAndSumZero ==
    ipc = "done" =>
        (iresult.ok <=> ( /\ first.rc = 0
                          /\ second.rc = 0
                          /\ ChangedTotal(iresult.second_recap) = 0 ))

\* C1 witness: a positive verdict although the first run changed something,
\* and a recap that is not empty.
C1_Witness ==
    /\ ipc = "done"
    /\ iresult.ok
    /\ DOMAIN iresult.second_recap # {}
    /\ \E h \in DOMAIN iresult.first_recap : iresult.first_recap[h][K_changed] # 0

\* C2 (as claimed): a nonzero changed counter of any host of the second recap
\* makes the verdict negative.
C2_AnyNonzeroChangedNotOk ==
    ipc = "done" =>
        ( (\E h \in DOMAIN iresult.second_recap :
               iresult.second_recap[h][K_changed] # 0)
          => ~iresult.ok )

\* the events of exec_log that start the executor
Starts == {i \in 1..Len(exec_log) : exec_log[i].ev = "start"}

\* C17: a call makes exactly two executor invocations with the same argument
\* vector, working directory and environment overlay, the second started only
\* after the first has returned and whatever the first exit code; the verdict
\* carries the recaps parsed from both runs.
C17_TwoSequentialIdenticalRuns ==
    /\ Cardinality(Starts) <= 2
    /\ \A i \in Starts : i > 1 => exec_log[i - 1].ev = "return"
    /\ ipc = "second_running" => Cardinality(Starts) = 2
    /\ ipc = "done" =>
           /\ Len(exec_log) = 4
           /\ Cardinality(Starts) = 2
           /\ exec_log[3].inv = exec_log[1].inv
           /\ exec_log[1].inv = idem_invocation(iargs)
           /\ iresult.first_rc = first.rc
           /\ iresult.first_recap = first_recap
           /\ iresult.second_recap = _parse_play_recap(second.stdout)

\* C17 witness: the first run exited non-zero with a recap, the second run was
\* made all the same, and the verdict has both recaps.
C17_Witness ==
    /\ ipc = "done"
    /\ first.rc # 0
    /\ Cardinality(Starts) = 2
    /\ exec_log[1].inv.cwd = "/proj"
    /\ DOMAIN iresult.first_recap # {}
    /\ DOMAIN iresult.second_recap # {}
    /\ iresult.first_recap # iresult.second_recap

(***************************************************************************)
(* Recap parser: claims                                                    *)
(***************************************************************************)
\* the line's trimmed content starts with the marker
IsMarkerLine(line) == startswith(strip(line), MARKER)

\* the index of the first marker line of ls, 0 when there is none
FirstMarker(ls) ==
    LET at == {i \in 1..Len(ls) : IsMarkerLine(ls[i])}
    IN  IF at = {} THEN 0 ELSE CHOOSE i \in at : \A j \in at : i <= j

\* the trimmed text before the first colon of a line that has one
HostOf(line) == strip(split1(line, ":")[1])

\* the whitespace-separated segments after the first colon
SegsOf(line) == split_ws(split1(line, ":")[2])

\* the positions of the segments key=value of segs with this key and a value
\* that int() accepts
Parseable(segs, key) ==
    {j \in 1..Len(segs) :
        /\ contains(segs[j], "=")
        /\ split1(segs[j], "=")[1] = key
        /\ int_parse(split1(segs[j], "=")[2]).ok}

ValueAt(segs, j) == int_parse(split1(segs[j], "=")[2]).val

\* a table: every entry holds exactly the seven counters, all integers
IsRecapTable(t) ==
    \A h \in DOMAIN t : DOMAIN t[h] = StatKeys /\ \A k \in StatKeys : t[h][k] \in Int

\* C14: the parser returns a table for every text, and the empty table for
\* every text without a line whose trimmed content starts with the marker.
C14_TotalAndEmptyWithoutMarker ==
    rpc = "done" =>
        /\ IsRecapTable(rtotals)
        /\ FirstMarker(splitlines(rtext)) = 0 => rtotals = EmptyDict

\* C14 witness: a text without a marker line that has host lines, one of them
\* naming the marker after other text.
C14_Witness ==
    /\ rpc = "done"
    /\ FirstMarker(splitlines(rtext)) = 0
    /\ \E i \in 1..Len(splitlines(rtext)) : splitlines(rtext)[i] = R_mid
    /\ \E i \in 1..Len(splitlines(rtext)) : contains(splitlines(rtext)[i], ":")
    /\ rtotals = EmptyDict

\* C15 (as claimed): every line after the marker that contains a colon has its
\* host in the table with exactly the seven counters, each the integer of a
\* parseable key=value segment of that line, 0 when the line has none.
C15_EveryColonLineIsItsHostsEntry ==
    rpc = "done" =>
        LET ls == splitlines(rtext)
            m  == FirstMarker(ls)
        IN  m # 0 =>
            \A i \in (m + 1)..Len(ls) :
                contains(ls[i], ":") =>
                    /\ HostOf(ls[i]) \in DOMAIN rtotals
                    /\ DOMAIN rtotals[HostOf(ls[i])] = StatKeys
                    /\ \A k \in StatKeys :
                           LET ps == Parseable(SegsOf(ls[i]), k)
                           IN  IF ps = {} THEN rtotals[HostOf(ls[i])][k] = 0
                               ELSE \E j \in ps :
                                      rtotals[HostOf(ls[i])][k] = ValueAt(SegsOf(ls[i]), j)

\* the lines after the first marker that contain a colon and are no marker
\* lines themselves
HostLines(ls) ==
    {i \in 1..Len(ls) :
        /\ FirstMarker(ls) # 0 /\ i > FirstMarker(ls)
        /\ ~IsMarkerLine(ls[i])
        /\ contains(ls[i], ":")}

\* C15 (amended): the table has exactly the hosts of the lines after the marker
\* that contain a colon and are no marker lines; a host's entry holds exactly
\* the seven counters and is read off the last line of that host: each counter
\* is the integer of the line's last parseable key=value segment for its key,
\* and 0 when the line has none.
C15_LastLineOfHostIsItsEntry ==
    rpc = "done" =>
        LET ls == splitlines(rtext)
            hl == HostLines(ls)
        IN  /\ DOMAIN rtotals = {HostOf(ls[i]) : i \in hl}
            /\ \A h \in DOMAIN rtotals :
                   LET mine == {i \in hl : HostOf(ls[i]) = h}
                       last == CHOOSE i \in mine : \A j \in mine : j <= i
                       segs == SegsOf(ls[last])
                   IN  /\ DOMAIN rtotals[h] = StatKeys
                       /\ \A k \in StatKeys :
                              LET ps == Parseable(segs, k)
                              IN  IF ps = {} THEN rtotals[h][k] = 0
                                  ELSE rtotals[h][k] =
                                         ValueAt(segs, CHOOSE j \in ps : \A x \in ps : x <= j)

\* C15 witness: after the marker, a line with an unparseable value, an
\* unrecognized key and a segment without "=", and a line that repeats a key
\* with a signed value and an unparseable one.
C15_Witness ==
    /\ rpc = "done"
    /\ LET ls == splitlines(rtext)
       IN  /\ Len(ls) = 3
           /\ IsMarkerLine(ls[1])
           /\ ls[2] = R_a_odd
           /\ ls[3] = R_b_dup
    /\ DOMAIN rtotals = {<<"a">>, <<"b">>}
    /\ rtotals[<<"a">>][K_ok] = 0
    /\ rtotals[<<"b">>][K_ok] = 2
    /\ rtotals[<<"b">>][K_changed] = 0

\* C22: when both runs exit with code 0 and the second run's output has no
\* marker line, the verdict is ok with an empty second recap and a changed
\* total of 0: a missing recap counts as no change.
C22_MissingRecapCountsAsZero ==
    (ipc = "done" /\ first.rc = 0 /\ second.rc = 0
        /\ FirstMarker(splitlines(second.stdout)) = 0) =>
        /\ iresult.ok
        /\ iresult.changed_total_second = 0
        /\ iresult.second_recap = EmptyDict

\* C22 witness: the second run exits with code 0 and prints a host line with
\* changed=1 but no marker line, after a first run that had a recap.
C22_Witness ==
    /\ ipc = "done"
    /\ first.rc = 0 /\ second.rc = 0
    /\ FirstMarker(splitlines(second.stdout)) = 0
    /\ \E i \in 1..Len(splitlines(second.stdout)) : splitlines(second.stdout)[i] = L_a1
    /\ DOMAIN iresult.first_recap # {}
    /\ iresult.ok

(***************************************************************************)
(* Inventory snapshot: claims                                              *)
(***************************************************************************)
SnapshotKeys == {"hosts", "groups", "hostvars"}

\* C6 (as claimed): exit code 0 with undecodable stdout gives a failure result
\* that carries the raw stdout and no hosts or groups.
C6_UndecodableIsFailure ==
    (ppc = "done" /\ pcall.rc = 0 /\ ~pcall.out.valid) =>
        /\ presult.ok = FALSE
        /\ "stdout" \in DOMAIN presult /\ presult.stdout = pcall.out
        /\ SnapshotKeys \cap DOMAIN presult = {}

\* C7: a non-zero exit code gives a failure with that code and the executor's
\* stdout and stderr as they came, and no hosts, groups or hostvars.
C7_NonZeroExitIsFailure ==
    (ppc = "done" /\ pcall.rc # 0) =>
        /\ presult.ok = FALSE
        /\ presult.rc = pcall.rc
        /\ "stdout" \in DOMAIN presult /\ presult.stdout = pcall.out
        /\ presult.stderr = pcall.err
        /\ SnapshotKeys \cap DOMAIN presult = {}

\* C7 witness: a non-zero exit whose stdout is a valid inventory with a group,
\* hostvars requested.
C7_Witness ==
    /\ ppc = "done"
    /\ pcall.rc # 0
    /\ pcall.out.valid
    /\ "web" \in DOMAIN pcall.out.data
    /\ pcall.out.data["web"].shape = "hosts_list"
    /\ pcall.include_hostvars = "True"
    /\ pcall.err # ""

\* C8 (as claimed): every member of every group of a snapshot is one of the
\* snapshot's hosts.
C8_GroupMembersAreHosts ==
    (ppc = "done" /\ "groups" \in DOMAIN presult) =>
        \A g \in DOMAIN presult.groups :
            Range(presult.groups[g]) \subseteq Range(presult.hosts)

\* the string elements of the "hosts" list of top-level key g of document d
StringMembers(d, g) ==
    IF d[g].shape = "hosts_list"
    THEN {d[g].hosts[i].v : i \in {j \in 1..Len(d[g].hosts) : d[g].hosts[j].t = "str"}}
    ELSE {}

\* C9 (as claimed): hosts is the hostvars keys united with the string elements
\* of the groups' lists, and a group's members are exactly the string elements
\* of its list.
C9_HostsAndMembersAreStringElements ==
    (ppc = "done" /\ "groups" \in DOMAIN presult) =>
        LET d      == pcall.out.data
            groups == DOMAIN d \ {"_meta"}
            hv     == IF "_meta" \in DOMAIN d THEN DOMAIN d["_meta"].hostvars ELSE {}
        IN  /\ Range(presult.hosts) = hv \cup UNION {StringMembers(d, g) : g \in groups}
            /\ \A g \in DOMAIN presult.groups :
                   Range(presult.groups[g]) = StringMembers(d, g)

(***************************************************************************)
(* Inventory diff: claims                                                  *)
(***************************************************************************)
\* both sides are snapshots with hostvars, and equal field by field
SameSnapshot(l, r) ==
    /\ SnapshotKeys \subseteq DOMAIN l
    /\ SnapshotKeys \subseteq DOMAIN r
    /\ l.hosts = r.hosts
    /\ l.groups = r.groups
    /\ l.hostvars = r.hostvars

\* C10: the diff of a snapshot against itself, hostvars compared, has no
\* added or removed hosts or groups and no membership or variable-key changes.
C10_DiffIdentity ==
    (dpc = "done" /\ dresult.ok /\ truthy(dcall.include_hostvars)
        /\ SameSnapshot(left, right)) =>
        /\ dresult.added_hosts = <<>>
        /\ dresult.removed_hosts = <<>>
        /\ dresult.added_groups = <<>>
        /\ dresult.removed_groups = <<>>
        /\ DOMAIN dresult.group_membership_changes = {}
        /\ DOMAIN dresult.hostvars_key_changes = {}

\* C10 witness: a snapshot with hosts, a group and variable keys is diffed
\* against itself.
C10_Witness ==
    /\ dpc = "done"
    /\ dresult.ok
    /\ truthy(dcall.include_hostvars)
    /\ SameSnapshot(left, right)
    /\ Len(left.hosts) >= 2
    /\ "web" \in DOMAIN left.groups
    /\ \E h \in DOMAIN left.hostvars : left.hostvars[h] # {}

\* C11: the added hosts of the diff of left against right are the removed
\* hosts of the diff of right against left, and both are the sorted hosts of
\* right that left does not have.
C11_DiffAntisymmetry ==
    (dpc = "done" /\ dresult.ok /\ "hosts" \in DOMAIN left /\ "hosts" \in DOMAIN right) =>
        LET back == diff_result(right, left, dcall.include_hostvars)
        IN  /\ dresult.added_hosts = back.removed_hosts
            /\ dresult.added_hosts = sorted_set(Range(right.hosts) \ Range(left.hosts))
            /\ dresult.removed_hosts = back.added_hosts

\* C11 witness: each side has a host the other side lacks.
C11_Witness ==
    /\ dpc = "done"
    /\ dresult.ok
    /\ "hosts" \in DOMAIN left /\ "hosts" \in DOMAIN right
    /\ dresult.added_hosts # <<>>
    /\ dresult.removed_hosts # <<>>
    /\ dresult.added_hosts # dresult.removed_hosts

\* the members of group g of a snapshot, as a set
Members(side, g) == Range(side.groups[g])

\* C12: group_membership_changes has an entry for exactly the groups that both
\* snapshots have with different member sets; the entry's added is the right
\* members without the left ones, its removed the left without the right.
C12_MembershipChanges ==
    (dpc = "done" /\ dresult.ok /\ "groups" \in DOMAIN left /\ "groups" \in DOMAIN right) =>
        LET gmc  == dresult.group_membership_changes
            both == DOMAIN left.groups \cap DOMAIN right.groups
        IN  /\ DOMAIN gmc = {g \in both : Members(left, g) # Members(right, g)}
            /\ \A g \in DOMAIN gmc :
                   /\ gmc[g].added = sorted_set(Members(right, g) \ Members(left, g))
                   /\ gmc[g].removed = sorted_set(Members(left, g) \ Members(right, g))

\* C12 witness: a group of both sides with member sets of the same size that
\* differ, next to a group that only one side has.
C12_Witness ==
    /\ dpc = "done"
    /\ dresult.ok
    /\ "groups" \in DOMAIN left /\ "groups" \in DOMAIN right
    /\ "web" \in DOMAIN dresult.group_membership_changes
    /\ Len(dresult.group_membership_changes["web"].added) = 1
    /\ Len(dresult.group_membership_changes["web"].removed) = 1
    /\ "db" \in DOMAIN left.groups \ DOMAIN right.groups

\* the variable keys of host h in a snapshot, none when it has none
KeysOf(side, h) ==
    IF "hostvars" \in DOMAIN side /\ h \in DOMAIN side.hostvars
    THEN side.hostvars[h] ELSE {}

\* C13: with hostvars compared, a host that only one snapshot has is compared
\* against an empty key set: all its keys are reported as added (host only on
\* the right) or as removed (host only on the left).
C13_HostvarsOverUnion ==
    (dpc = "done" /\ dresult.ok /\ truthy(dcall.include_hostvars)
        /\ "hosts" \in DOMAIN left /\ "hosts" \in DOMAIN right) =>
        LET hvc == dresult.hostvars_key_changes
            lh  == Range(left.hosts)
            rh  == Range(right.hosts)
        IN  /\ DOMAIN hvc \subseteq lh \cup rh
            /\ \A h \in rh \ lh :
                   IF KeysOf(right, h) = {} THEN h \notin DOMAIN hvc
                   ELSE /\ h \in DOMAIN hvc
                        /\ hvc[h].added = sorted_set(KeysOf(right, h))
                        /\ hvc[h].removed = <<>>
            /\ \A h \in lh \ rh :
                   IF KeysOf(left, h) = {} THEN h \notin DOMAIN hvc
                   ELSE /\ h \in DOMAIN hvc
                        /\ hvc[h].removed = sorted_set(KeysOf(left, h))
                        /\ hvc[h].added = <<>>

\* C13 witness: a host with variable keys that only the right snapshot has,
\* and one that only the left snapshot has.
C13_Witness ==
    /\ dpc = "done"
    /\ dresult.ok
    /\ truthy(dcall.include_hostvars)
    /\ "hosts" \in DOMAIN left /\ "hosts" \in DOMAIN right
    /\ \E h \in Range(right.hosts) \ Range(left.hosts) :
           h \in DOMAIN dresult.hostvars_key_changes
    /\ \E h \in Range(left.hosts) \ Range(right.hosts) :
           h \in DOMAIN dresult.hostvars_key_changes

\* C16: when include_hostvars is false or unset, a snapshot has no hostvars
\* key and the diff result has no hostvars_key_changes key.
C16_HostvarsOmitted ==
    (dpc = "done" /\ ~truthy(dcall.include_hostvars)) =>
        /\ "hostvars" \notin DOMAIN left
        /\ left.ok => "hostvars" \notin DOMAIN right
        /\ "hostvars_key_changes" \notin DOMAIN dresult

\* C16 witness: hostvars not asked for, both snapshots taken with hosts in
\* them and diffed.
C16_Witness ==
    /\ dpc = "done"
    /\ dcall.include_hostvars \in {"False", None}
    /\ dresult.ok
    /\ "hosts" \in DOMAIN left /\ left.hosts # <<>>
    /\ "hosts" \in DOMAIN right /\ right.hosts # <<>>
    /\ dresult.added_hosts # <<>>

\* the acquisition that returned side failed: a non-zero exit code, or no
\* snapshot decoded from the output
AcquisitionFailed(side) == side.rc # 0 \/ "hosts" \notin DOMAIN side

\* C18 (as claimed): the diff is ok with deltas only when both acquisitions
\* succeeded; otherwise it is not ok and names the side that failed.
C18_DeltasOnlyFromTwoSnapshots ==
    dpc = "done" =>
        IF AcquisitionFailed(left)
        THEN ~dresult.ok /\ dresult.side = "left"
        ELSE IF AcquisitionFailed(right)
             THEN ~dresult.ok /\ dresult.side = "right"
             ELSE dresult.ok

(***************************************************************************)
(* Vault password handling: claims                                         *)
(***************************************************************************)
Returned(p) == vpc[p] = "done"

\* the executor has been handed a command by the call of p
Handed(p) == vpc[p] \in {"running", "remove", "done"} /\ vargv[p] # <<>>

\* C3 (as claimed): once a vault operation has returned, no file exists at a
\* temporary path that was handed to the subprocess.
C3_NoSecretFileAfterReturn ==
    \A p \in Procs :
        Returned(p) =>
            \A i \in 1..Len(vtmp[p]) :
                vtmp[p][i].path \in Range(vargv[p]) => vtmp[p][i].path \notin DOMAIN fs

\* C3 (amended): once a vault operation has returned, os.remove has been tried
\* on every temporary file it created, and none of them exists unless that
\* os.remove itself failed.
C3_RemovedAfterReturnUnlessRemoveFailed ==
    \A p \in Procs :
        Returned(p) =>
            \A i \in 1..Len(vtmp[p]) :
                /\ vtmp[p][i].st \in {"removed", "stuck"}
                /\ vtmp[p][i].st = "removed" => vtmp[p][i].path \notin DOMAIN fs

\* C3 witness: the executor raised after two files were handed to it, and both
\* are gone when the exception reaches the caller.
C3_Witness ==
    \E p \in Procs :
        /\ Returned(p)
        /\ vout[p].kind = "exc"
        /\ Len(vtmp[p]) = 2
        /\ \A i \in 1..2 : /\ vtmp[p][i].path \in Range(vargv[p])
                           /\ vtmp[p][i].st = "removed"
                           /\ vtmp[p][i].path \notin DOMAIN fs

\* the four sources of a credential, highest rank first
CredSources(password, password_file, env) ==
    << [kind |-> "file",  val |-> password_file],
       [kind |-> "value", val |-> password],
       [kind |-> "value", val |-> env.MCP_VAULT_PASSWORD],
       [kind |-> "file",  val |-> env.VAULT_PASSWORD_FILE] >>

\* cred is the plan of the highest-ranked present source of srcs
FromFirstPresent(cred, srcs) ==
    LET present == {i \in 1..Len(srcs) : Present(srcs[i].val)}
    IN  IF present = {} THEN cred.args = <<>> /\ cred.inline = None
        ELSE LET i == CHOOSE j \in present : \A k \in present : j <= k
             IN  IF srcs[i].kind = "value"
                 THEN cred.inline = srcs[i].val /\ cred.args = <<PW_FLAG, TEMPFILE>>
                 ELSE cred.inline = None /\ cred.args = <<PW_FLAG, srcs[i].val>>

\* C4: a credential is resolved from the first present source in the order
\* explicit file, explicit value, MCP_VAULT_PASSWORD, VAULT_PASSWORD_FILE; it is
\* to be materialized exactly for the two value sources, and there is no
\* password argument when no source is present.
C4_CredentialPrecedence ==
    \A p \in Procs :
        vpc[p] # "idle" =>
            /\ FromFirstPresent(vplan[p].cred,
                   CredSources(vcall[p].password, vcall[p].password_file, environ))
            /\ vcall[p].op = "rekey" =>
                   FromFirstPresent(vplan[p].new,
                       CredSources(vcall[p].new_password, vcall[p].new_password_file,
                                   environ))

\* C4 witness: an explicit value wins over both environment fallbacks, and the
\* operation has run with it.
C4_Witness ==
    \E p \in Procs :
        /\ Returned(p)
        /\ vcall[p].password = "pw"
        /\ ~Present(vcall[p].password_file)
        /\ environ.MCP_VAULT_PASSWORD = "envpw"
        /\ environ.VAULT_PASSWORD_FILE = "/env.pw"
        /\ vplan[p].cred.inline = "pw"
        /\ vout[p].kind = "ret"

\* the word after the first occurrence of flag in argv, None without the flag
ArgAfter(argv, flag) ==
    LET at == {i \in 1..(Len(argv) - 1) : argv[i] = flag}
    IN  IF at = {} THEN None
        ELSE argv[(CHOOSE i \in at : \A j \in at : i <= j) + 1]

\* the credentials of the call of p that are in-memory values
Materialized(p) ==
    (IF vplan[p].cred.inline # None THEN 1 ELSE 0)
        + (IF vplan[p].new.inline # None THEN 1 ELSE 0)

\* C5 (as claimed): a credential given as an explicit file path reaches the
\* executor as exactly that path, and temporary files are created only for
\* the credentials that are in-memory values.
C5_ExplicitFileUsedDirectly ==
    \A p \in Procs :
        Handed(p) =>
            /\ Present(vcall[p].password_file) =>
                   ArgAfter(vargv[p], PW_FLAG) = vcall[p].password_file
            /\ Present(vcall[p].new_password_file) =>
                   ArgAfter(vargv[p], NEW_PW_FLAG) = vcall[p].new_password_file
            /\ (Present(vcall[p].password_file) \/ Present(vcall[p].new_password_file)) =>
                   Len(vtmp[p]) = Materialized(p)

\* the in-memory password values the call of p can see: the explicit ones and
\* the one of the environment
Secrets(p) ==
    {x \in {vcall[p].password, vcall[p].new_password, environ.MCP_VAULT_PASSWORD} :
        Present(x)}

\* the paths that may follow a password-file flag in the call of p: the ones
\* it was given, and its own temporary files
PasswordFilePaths(p) ==
    {x \in {vcall[p].password_file, vcall[p].new_password_file,
            environ.VAULT_PASSWORD_FILE} : Present(x)}
        \cup {vtmp[p][i].path : i \in 1..Len(vtmp[p])}

\* C20: no in-memory password value is an element of the argument vector
\* handed to the executor, the returned command string is that vector joined,
\* every password-file flag is followed by a file path, and no placeholder is
\* left in the vector.
C20_NoPasswordInArgv ==
    \A p \in Procs :
        Handed(p) =>
            /\ Range(vargv[p]) \cap Secrets(p) = {}
            /\ Range(vargv[p]) \cap {TEMPFILE, TEMPFILE_NEW} = {}
            /\ \A i \in 1..Len(vargv[p]) :
                   vargv[p][i] \in {PW_FLAG, NEW_PW_FLAG} =>
                       /\ i < Len(vargv[p])
                       /\ vargv[p][i + 1] \in PasswordFilePaths(p)
            /\ vout[p].kind = "ret" => vout[p].command = shlex_join(vargv[p])

\* C20 witness: a rekey with both passwords in memory has run and returned,
\* both flags followed by the two temporary files.
C20_Witness ==
    \E p \in Procs :
        /\ Returned(p)
        /\ vout[p].kind = "ret"
        /\ vcall[p].op = "rekey"
        /\ vplan[p].cred.inline = "pw"
        /\ vplan[p].new.inline = "newpw"
        /\ ArgAfter(vargv[p], PW_FLAG) = vtmp[p][1].path
        /\ ArgAfter(vargv[p], NEW_PW_FLAG) = vtmp[p][2].path

\* the temporary files acquired and not yet released, as <<process, index>>
Held == {pi \in Procs \X (1..MaxTemp + 1) :
            pi[2] <= Len(vtmp[pi[1]]) /\ vtmp[pi[1]][pi[2]].st = "live"}

\* the subprocess of q has been given its files and has not finished
Consuming(q) == vpc[q] \in {"exec", "running"}

\* C19: under every interleaving, the temporary files held at the same time
\* have different paths, and as long as the subprocess of an operation has
\* not finished, each of its temporary files exists and holds the password
\* that operation wrote, whatever the other operations clean up.
C19_OwnFileUntilConsumed ==
    /\ \A a \in Held, b \in Held :
           a # b => vtmp[a[1]][a[2]].path # vtmp[b[1]][b[2]].path
    /\ \A q \in Procs :
           Consuming(q) =>
               \A i \in 1..Len(vtmp[q]) :
                   /\ vtmp[q][i].path \in DOMAIN fs
                   /\ fs[vtmp[q][i].path] = vplan[q].needs[i]

\* C19 witness: one operation is removing its file while the subprocess of
\* the other is still running on a file of its own.
C19_Witness ==
    \E p \in Procs, q \in Procs :
        /\ p # q
        /\ vpc[p] = "remove" /\ vtmp[p] # <<>>
        /\ vpc[q] = "running" /\ vtmp[q] # <<>>
        /\ vtmp[q][1].path \in Range(vargv[q])

\* the creation of a temporary file failed in the call of p
CreationFailed(p) == vout[p] = Raised("NamedTemporaryFile")

\* a step of the finally clauses of p: os.remove was tried on one of its files
CleanupStep(p) ==
    /\ vpc[p] = "remove"
    /\ \E i \in 1..Len(vtmp[p]) : vtmp[p][i].st = "live" /\ vtmp'[p][i].st # "live"

\* C21: when the creation of a temporary file fails, the exception goes to the
\* caller and the executor is never handed a command; when only os.remove
\* fails, or succeeds, what was on its way to the caller (the subprocess's
\* exit code and output) stays as it was.
C21_CreateFailurePropagatesRemoveFailureDoesNot ==
    /\ [](\A p \in Procs :
             CreationFailed(p) =>
                 /\ vargv[p] = <<>>
                 /\ vpc[p] \in {"remove", "done"}
                 /\ vout[p].kind = "exc")
    /\ [][\A p \in Procs : CleanupStep(p) => vout'[p] = vout[p]]_vars

\* C21 witness: one call has returned the exception of a failed creation
\* without any command handed to the executor, and another has returned its
\* subprocess's non-zero exit code although the removal of its file failed.
C21_Witness ==
    \E p \in Procs, q \in Procs :
        /\ p # q
        /\ Returned(p) /\ CreationFailed(p) /\ vargv[p] = <<>>
        /\ Returned(q) /\ vout[q].kind = "ret" /\ vout[q].rc = 1
        /\ \E i \in 1..Len(vtmp[q]) : vtmp[q][i].st = "stuck"

(***************************************************************************)
(* Specifications: one per tool, the other tools at rest                   *)
(***************************************************************************)
Init == IdemInit /\ InvInit /\ DiffInit /\ VaultAtRest /\ RecapInit

IdemSpec == Init /\ [][IdemNext]_vars

InvSpec == Init /\ [][InvNext]_vars

DiffSpec == Init /\ [][DiffNext]_vars

RecapSpec == Init /\ [][RecapNext]_vars

\* the vault tools called concurrently
ConcSpec == Init /\ [][ConcNext]_vars

\* one vault call at a time, under every environment
InitAnyEnviron == IdemInit /\ InvInit /\ DiffInit /\ VaultInit /\ RecapInit

VaultSpec == InitAnyEnviron /\ [][VaultNext]_vars

====
